---- MODULE Spec2Model ----
(***************************************************************************)
(* Model of my_cluster_id.py: a script that draws a version-4 UUID, takes  *)
(* its 16 bytes, encodes them as URL-safe Base64 without padding and       *)
(* prints the result.                                                      *)
(*                                                                         *)
(* Bytes objects are sequences of integers 0..255, a str is a sequence of  *)
(* one-character strings, and the 128-bit integer a UUID holds is a        *)
(* sequence of eight 16-bit words, most significant first (TLC's integers  *)
(* are 32 bits wide).                                                      *)
(***************************************************************************)
EXTENDS Integers, Sequences, FiniteSets

VARIABLES
    pc,           \* the statement about to run: "l5", "l14", "l19", "l21", "exit"
    my_uuid,      \* line 5: the UUID's integer as eight 16-bit words, <<>> before
    uuid_bytes,   \* line 14: the 16 bytes, <<>> before
    cluster_id,   \* line 19: the encoded str, <<>> before
    stdout,       \* the characters that reached standard output
    raised,       \* the exception that ended the run, "none" otherwise
    exit_status   \* the process's exit status, -1 while it runs

vars == <<pc, my_uuid, uuid_bytes, cluster_id, stdout, raised, exit_status>>

----------------------------------------------------------------------------
(* Bounds of the sampled inputs.                                           *)

\* Random byte strings are sampled as b[i] = (seed + i*stride) mod 256, with
\* every seed 0..255 and every stride 0..MaxStride.
MaxStride == 3

\* The encoder alone is exercised on inputs of 0..MaxLen bytes.
MaxLen == 17

----------------------------------------------------------------------------
(* The sampled outputs of the randomness source.                           *)

\* The byte strings the randomness source is sampled over: n bytes.
Pattern(seed, stride, n) == [i \in 1..n |-> (seed + (i - 1) * stride) % 256]

----------------------------------------------------------------------------
(* uuid.uuid4(), line 5: UUID(bytes=os.urandom(16), version=4).            *)

\* int.from_bytes(bytes, 'big'), as 16-bit words.
from_bytes(b) == [k \in 1..(Len(b) \div 2) |-> b[2 * k - 1] * 256 + b[2 * k]]

\* Mutant of set_version_variant: the two fields are written to each other's word.
set_version_variant_swapped(w) ==
    [k \in 1..Len(w) |->
        IF k = 4 THEN (w[k] % 16384) + 32768
        ELSE IF k = 5 THEN (w[k] % 4096) + 4 * 4096
        ELSE w[k]]

\* UUID.__init__ with version=4:
\*   int &= ~(0xc000 << 48); int |= 0x8000 << 48     (the variant, word 5)
\*   int &= ~(0xf000 << 64); int |= version << 76    (the version, word 4)
set_version_variant(w) ==
    [k \in 1..Len(w) |->
        IF k = 5 THEN (w[k] % 16384) + 32768
        ELSE IF k = 4 THEN (w[k] % 4096) + 4 * 4096
        ELSE w[k]]

\* Mutant of uuid4: the random bytes are taken as they are, no version set.
uuid4_no_version(random16) == from_bytes(random16)

uuid4(random16) == set_version_variant(from_bytes(random16))

\* UUID.bytes, line 14: int.to_bytes(16, 'big'); word k gives bytes 2k-1, 2k.
bytes_of(u) ==
    [i \in 1..(2 * Len(u)) |->
        IF i % 2 = 1 THEN u[(i + 1) \div 2] \div 256 ELSE u[i \div 2] % 256]

----------------------------------------------------------------------------
(* base64.urlsafe_b64encode(s).rstrip(b'=').decode('ascii'), line 19.      *)

\* Mutant of b64_table: the lower-case letters come before the upper-case ones.
b64_table_lower_first(i) ==
    IF i < 26 THEN 97 + i
    ELSE IF i < 52 THEN 65 + (i - 26)
    ELSE IF i < 62 THEN 48 + (i - 52)
    ELSE IF i = 62 THEN 43
    ELSE 47

\* The standard Base64 alphabet, as the ASCII code of symbol i (0..63).
b64_table(i) ==
    IF i < 26 THEN 65 + i
    ELSE IF i < 52 THEN 97 + (i - 26)
    ELSE IF i < 62 THEN 48 + (i - 52)
    ELSE IF i = 62 THEN 43
    ELSE 47

\* Mutant of b64_char: the third symbol loses the two bits it takes from the
\* third byte.
b64_char_no_carry(s, g, p) ==
    LET b1 == s[3 * g + 1]
        b2 == IF 3 * g + 2 <= Len(s) THEN s[3 * g + 2] ELSE 0
        b3 == IF 3 * g + 3 <= Len(s) THEN s[3 * g + 3] ELSE 0
    IN  IF p = 0 THEN b64_table(b1 \div 4)
        ELSE IF p = 1 THEN b64_table((b1 % 4) * 16 + b2 \div 16)
        ELSE IF p = 2 THEN
            IF 3 * g + 2 > Len(s) THEN 61 ELSE b64_table((b2 % 16) * 4)
        ELSE
            IF 3 * g + 3 > Len(s) THEN 61 ELSE b64_table(b3 % 64)

\* Character p (0..3) of group g (0, 1, ...) of binascii.b2a_base64(s): each
\* group of 3 bytes gives 4 symbols of 6 bits; a last group of 1 byte gives 2
\* symbols and "==", a last group of 2 bytes 3 symbols and "=" (code 61).
b64_char(s, g, p) ==
    LET b1 == s[3 * g + 1]
        b2 == IF 3 * g + 2 <= Len(s) THEN s[3 * g + 2] ELSE 0
        b3 == IF 3 * g + 3 <= Len(s) THEN s[3 * g + 3] ELSE 0
    IN  IF p = 0 THEN b64_table(b1 \div 4)
        ELSE IF p = 1 THEN b64_table((b1 % 4) * 16 + b2 \div 16)
        ELSE IF p = 2 THEN
            IF 3 * g + 2 > Len(s) THEN 61 ELSE b64_table((b2 % 16) * 4 + b3 \div 64)
        ELSE
            IF 3 * g + 3 > Len(s) THEN 61 ELSE b64_table(b3 % 64)

\* Mutant of b2a_base64: a last group of fewer than 3 bytes is dropped.
b2a_base64_whole_groups(s) ==
    [i \in 1..(4 * (Len(s) \div 3)) |-> b64_char(s, (i - 1) \div 4, (i - 1) % 4)]

\* binascii.b2a_base64(s, newline=False): 4 characters for every 3 bytes begun.
b2a_base64(s) ==
    [i \in 1..(4 * ((Len(s) + 2) \div 3)) |-> b64_char(s, (i - 1) \div 4, (i - 1) % 4)]

\* Mutant of urlsafe_translate: the standard alphabet is kept.
standard_translate(c) == c

\* bytes.translate(_urlsafe_encode_translation): '+' to '-', '/' to '_'.
urlsafe_translate(c) == IF c = 43 THEN 45 ELSE IF c = 47 THEN 95 ELSE c

urlsafe_b64encode(s) ==
    LET e == b2a_base64(s) IN [i \in 1..Len(e) |-> urlsafe_translate(e[i])]

\* Mutant of rstrip_eq: at most one trailing byte 61 is dropped.
rstrip_one(b) ==
    IF Len(b) > 0 /\ b[Len(b)] = 61 THEN SubSeq(b, 1, Len(b) - 1) ELSE b

\* bytes.rstrip(b'='): drops every trailing byte 61, keeping the bytes up to
\* the last one that is not 61.
rstrip_eq(b) ==
    LET kept == {i \in 1..Len(b) : b[i] # 61}
    IN  SubSeq(b, 1, IF kept = {} THEN 0 ELSE CHOOSE i \in kept : \A j \in kept : j <= i)

\* The printable ASCII characters, codes 32..126 (a TLA+ string cannot hold
\* the grave accent, code 96, which is written by its escape).
ascii_printable ==
    << " ", "!", "\"", "#", "$", "%", "&", "'", "(", ")", "*", "+", ",", "-", ".", "/",
       "0", "1", "2", "3", "4", "5", "6", "7", "8", "9", ":", ";", "<", "=", ">", "?",
       "@", "A", "B", "C", "D", "E", "F", "G", "H", "I", "J", "K", "L", "M", "N", "O",
       "P", "Q", "R", "S", "T", "U", "V", "W", "X", "Y", "Z", "[", "\\", "]", "^", "_",
       "\\x60", "a", "b", "c", "d", "e", "f", "g", "h", "i", "j", "k", "l", "m", "n", "o",
       "p", "q", "r", "s", "t", "u", "v", "w", "x", "y", "z", "{", "|", "}", "~" >>

\* bytes.decode('ascii') of one byte; every control character is written as
\* the same backslash-x marker (the encoder produces none).
ascii_char(c) == IF c \in 32..126 THEN ascii_printable[c - 31] ELSE "\\x"

\* bytes.decode('ascii'): a str, or UnicodeDecodeError on a byte above 127.
decode_ok(b) == \A i \in 1..Len(b) : b[i] < 128
decode_ascii(b) == [i \in 1..Len(b) |-> ascii_char(b[i])]

----------------------------------------------------------------------------
(* The script, statement by statement.                                     *)

Init ==
    /\ pc = "l5"
    /\ my_uuid = <<>>
    /\ uuid_bytes = <<>>
    /\ cluster_id = <<>>
    /\ stdout = <<>>
    /\ raised = "none"
    /\ exit_status = -1

\* Line 5: my_uuid = uuid.uuid4().  os.urandom(16) returns 16 random bytes.
Generate ==
    /\ pc = "l5"
    /\ \E seed \in 0..255, stride \in 0..MaxStride :
           my_uuid' = uuid4(Pattern(seed, stride, 16))
    /\ pc' = "l14"
    /\ UNCHANGED <<uuid_bytes, cluster_id, stdout, raised, exit_status>>

\* Line 5 when os.urandom raises (no randomness source): the exception is not
\* caught, the interpreter prints a traceback to stderr and exits with 1.
GenerateFails ==
    /\ pc = "l5"
    /\ pc' = "exit"
    /\ raised' = "OSError"
    /\ exit_status' = 1
    /\ UNCHANGED <<my_uuid, uuid_bytes, cluster_id, stdout>>

\* Line 14: uuid_bytes = my_uuid.bytes.
GetBytes ==
    /\ pc = "l14"
    /\ uuid_bytes' = bytes_of(my_uuid)
    /\ pc' = "l19"
    /\ UNCHANGED <<my_uuid, cluster_id, stdout, raised, exit_status>>

\* Line 19: cluster_id = base64.urlsafe_b64encode(uuid_bytes).rstrip(b'=').decode('ascii').
\* The three calls run in turn, each on the value of the one before.  There is
\* no check of the input's length.  decode raises UnicodeDecodeError on a byte
\* above 127, which is not caught.
Encode ==
    /\ pc = "l19"
    /\ \E encoded \in {urlsafe_b64encode(uuid_bytes)} :
       \E stripped \in {rstrip_eq(encoded)} :
           IF decode_ok(stripped)
           THEN /\ cluster_id' = decode_ascii(stripped)
                /\ pc' = "l21"
                /\ UNCHANGED <<raised, exit_status>>
           ELSE /\ pc' = "exit"
                /\ raised' = "UnicodeDecodeError"
                /\ exit_status' = 1
                /\ UNCHANGED cluster_id
    /\ UNCHANGED <<my_uuid, uuid_bytes, stdout>>

\* Mutant of Emit: a failed write is retried from the start of the script.
Emit_retry ==
    /\ pc = "l21"
    /\ \/ /\ stdout' = stdout \o cluster_id \o <<"\n">>
          /\ pc' = "exit"
          /\ exit_status' = 0
       \/ /\ stdout' = stdout
          /\ pc' = "l5"
          /\ exit_status' = exit_status
    /\ UNCHANGED <<my_uuid, uuid_bytes, cluster_id, raised>>

\* Line 21: print(cluster_id), and the interpreter's exit.  print writes
\* str(cluster_id) and the end "\n" to sys.stdout, whose buffer reaches file
\* descriptor 1 at once (a terminal) or when the interpreter exits (a pipe, a
\* file).  What happens depends on the descriptor the process was started with.
Emit ==
    /\ pc = "l21"
    /\ pc' = "exit"
    /\ LET line == cluster_id \o <<"\n">> IN
          \* The descriptor is writable: the line is written, the exit status is 0.
          \/ /\ stdout' = stdout \o line
             /\ raised' = "none"
             /\ exit_status' = 0
          \* The descriptor is closed at startup: sys.stdout is None, print
          \* returns without writing or raising, the exit status is 0.
          \/ /\ stdout' = stdout
             /\ raised' = "none"
             /\ exit_status' = 0
          \* A write fails with OSError (a full device, a broken pipe, a file
          \* size limit) after k < len(line) characters were accepted.  Raised
          \* in print, it is not caught and the exit status is 1; raised in the
          \* flush at exit, it is reported on stderr and the exit status is 120.
          \/ /\ \E k \in 0..(Len(line) - 1) : stdout' = stdout \o SubSeq(line, 1, k)
             /\ raised' = "OSError"
             /\ exit_status' \in {1, 120}
    /\ UNCHANGED <<my_uuid, uuid_bytes, cluster_id>>

Next == Generate \/ GenerateFails \/ GetBytes \/ Encode \/ Emit

Spec == Init /\ [][Next]_vars

\* The script is one thread of straight-line code: a statement that can run, runs.
FairSpec == Spec /\ WF_vars(Next)

----------------------------------------------------------------------------
(* The encoder alone (line 19), on byte strings of any length up to MaxLen. *)

EncInit ==
    /\ pc = "l19"
    /\ my_uuid = <<>>
    /\ \E seed \in 0..255, stride \in 0..MaxStride, n \in 0..MaxLen :
           uuid_bytes = Pattern(seed, stride, n)
    /\ cluster_id = <<>>
    /\ stdout = <<>>
    /\ raised = "none"
    /\ exit_status = -1

EncNext == Encode

EncSpec == EncInit /\ [][EncNext]_vars

----------------------------------------------------------------------------
(* The stages of the run: GENERATING is line 5, ENCODING lines 14 to 19,   *)
(* EMITTING line 21; the run is DONE when the process has exited with      *)
(* status 0 and FAILED when it has exited with any other status.           *)

Stage ==
    CASE pc = "l5" -> "GENERATING"
      [] pc \in {"l14", "l19"} -> "ENCODING"
      [] pc = "l21" -> "EMITTING"
      [] pc = "exit" /\ exit_status = 0 -> "DONE"
      [] OTHER -> "FAILED"

\* Line 19 has run and assigned cluster_id.
Encoded == pc = "l21" \/ (pc = "exit" /\ uuid_bytes # <<>> /\ raised # "UnicodeDecodeError")

----------------------------------------------------------------------------
(* The reference the claims are stated against: the URL-safe Base64        *)
(* alphabet of RFC 4648, and its decoder.                                  *)

UrlSafeAlphabet ==
    << "A", "B", "C", "D", "E", "F", "G", "H", "I", "J", "K", "L", "M",
       "N", "O", "P", "Q", "R", "S", "T", "U", "V", "W", "X", "Y", "Z",
       "a", "b", "c", "d", "e", "f", "g", "h", "i", "j", "k", "l", "m",
       "n", "o", "p", "q", "r", "s", "t", "u", "v", "w", "x", "y", "z",
       "0", "1", "2", "3", "4", "5", "6", "7", "8", "9", "-", "_" >>

UrlSafeChars == {UrlSafeAlphabet[i] : i \in 1..64}

RECURSIVE Flatten(_)
Flatten(ss) == IF ss = <<>> THEN <<>> ELSE Head(ss) \o Flatten(Tail(ss))

\* The value 0..63 of a character of the alphabet, -1 for any other character.
SymbolValue(ch) ==
    IF ch \in UrlSafeChars
    THEN (CHOOSE i \in 1..64 : UrlSafeAlphabet[i] = ch) - 1
    ELSE -1

\* The string with the "=" padding a decoder wants: up to a multiple of 4.
AddPadding(t) == t \o [i \in 1..((4 - (Len(t) % 4)) % 4) |-> "="]

\* A padded Base64 string: a multiple of 4 characters of the alphabet, the
\* last one or two of which may be "=".
ValidBase64(t) ==
    /\ Len(t) % 4 = 0
    /\ \A i \in 1..Len(t) :
           \/ t[i] \in UrlSafeChars
           \/ /\ t[i] = "="
              /\ i >= Len(t) - 1
              /\ t[Len(t)] = "="

\* The bytes of one group of 4 characters.
DecodeGroup(g) ==
    LET v1 == SymbolValue(g[1])
        v2 == SymbolValue(g[2])
        v3 == SymbolValue(g[3])
        v4 == SymbolValue(g[4])
    IN  IF g[3] = "=" THEN << v1 * 4 + v2 \div 16 >>
        ELSE IF g[4] = "=" THEN << v1 * 4 + v2 \div 16, (v2 % 16) * 16 + v3 \div 4 >>
        ELSE << v1 * 4 + v2 \div 16, (v2 % 16) * 16 + v3 \div 4, (v3 % 4) * 64 + v4 >>

\* The bytes a URL-safe Base64 decoder reads from a padded string; <<-1>> when
\* the string is not valid Base64.
UrlSafeDecode(t) ==
    IF ~ValidBase64(t) THEN <<-1>>
    ELSE Flatten([k \in 1..(Len(t) \div 4) |-> DecodeGroup(SubSeq(t, 4 * k - 3, 4 * k))])

----------------------------------------------------------------------------
(* Claims.                                                                 *)

C2_RoundTrip ==
    Encoded =>
        /\ UrlSafeDecode(AddPadding(cluster_id)) = uuid_bytes
        /\ (stdout # <<>> /\ exit_status = 0 =>
               UrlSafeDecode(AddPadding(SubSeq(stdout, 1, Len(stdout) - 1))) = uuid_bytes)

\* An emitted identifier whose 16 bytes are pairwise different.
C2_Witness ==
    /\ pc = "exit"
    /\ exit_status = 0
    /\ Len(stdout) = 23
    /\ Len(uuid_bytes) = 16
    /\ \A i, j \in 1..16 : i # j => uuid_bytes[i] # uuid_bytes[j]

C4_FailFastNoPartialOutput ==
    /\ (raised # "none" => Stage = "FAILED")
    /\ \/ stdout = <<>>
       \/ /\ Len(cluster_id) = 22
          /\ stdout = cluster_id \o <<"\n">>
    /\ (Stage = "FAILED" => stdout = <<>>)
    /\ (pc = "exit" => (exit_status = 0 <=> stdout # <<>>))

\* The rank of a stage in the pipeline's order.
StageRank(st) ==
    CASE st = "GENERATING" -> 1
      [] st = "ENCODING" -> 2
      [] st = "EMITTING" -> 3
      [] OTHER -> 4

\* One step of the pipeline: the stage stays (the two statements of ENCODING)
\* or moves to the next stage or to FAILED, and nothing follows DONE or FAILED.
StageStep ==
    /\ Stage \notin {"DONE", "FAILED"}
    /\ \/ Stage' = Stage /\ Stage = "ENCODING" /\ pc = "l14" /\ pc' = "l19"
       \/ Stage' = "FAILED"
       \/ StageRank(Stage') = StageRank(Stage) + 1 /\ Stage' # "FAILED"

\* C5: every run goes GENERATING, ENCODING, EMITTING, DONE in this order,
\* entering each stage at most once, never going back, and eventually ends
\* in DONE or FAILED.
C5_LinearPipeline ==
    /\ Stage = "GENERATING"
    /\ [][StageStep]_vars
    /\ <>(Stage \in {"DONE", "FAILED"})

\* A run that went through every stage and ended in DONE with its line written.
C5_Witness ==
    /\ Stage = "DONE"
    /\ my_uuid # <<>>
    /\ uuid_bytes # <<>>
    /\ stdout = cluster_id \o <<"\n">>

\* C6: the identifier handed to the encoder is exactly 16 bytes, the high
\* nibble of its byte 6 is 4 and the top two bits of its byte 8 are binary 10
\* (bytes counted from 0, so elements 7 and 9 of the sequence).
C6_Version4Layout ==
    uuid_bytes # <<>> =>
        /\ Len(uuid_bytes) = 16
        /\ \A i \in 1..16 : uuid_bytes[i] \in 0..255
        /\ uuid_bytes[7] \div 16 = 4
        /\ uuid_bytes[9] \div 64 = 2

\* An identifier at the encoder all of whose 122 random bits are 1: only the
\* version and the variant bits differ from the random bytes drawn.
C6_Witness ==
    /\ pc = "l19"
    /\ uuid_bytes[7] = 79
    /\ uuid_bytes[9] = 191
    /\ \A i \in (1..16) \ {7, 9} : uuid_bytes[i] = 255

\* C7, as claimed: in every run that exits with status 0, standard output
\* holds exactly the encoded string and one newline, and the identifier and
\* the string are still the ones created at lines 14 and 19.
C7_SuccessWritesExactlyTheLine ==
    (pc = "exit" /\ exit_status = 0) =>
        /\ stdout = cluster_id \o <<"\n">>
        /\ uuid_bytes = bytes_of(my_uuid)
        /\ cluster_id = decode_ascii(rstrip_eq(urlsafe_b64encode(uuid_bytes)))

\* C8: the encoder turns 16 zero bytes into 22 times the character "A".
C8_AllZero ==
    (pc = "l21" /\ uuid_bytes = [i \in 1..16 |-> 0]) =>
        cluster_id = [i \in 1..22 |-> "A"]

\* The encoder has run on 16 zero bytes.
C8_Witness ==
    /\ pc = "l21"
    /\ uuid_bytes = [i \in 1..16 |-> 0]
    /\ Len(cluster_id) = 22

\* C9: the Base64 encoding of 16 bytes is 22 data characters followed by
\* exactly 2 "=" (code 61), so stripping the trailing "=" removes those two
\* and no data character, and 22 characters are left.
C9_PaddingIsExactlyTwo ==
    Len(uuid_bytes) = 16 =>
        LET e == urlsafe_b64encode(uuid_bytes) IN
            /\ Len(e) = 24
            /\ e[23] = 61 /\ e[24] = 61
            /\ \A i \in 1..22 : e[i] # 61
            /\ rstrip_eq(e) = SubSeq(e, 1, 22)
            /\ (pc = "l21" => cluster_id = decode_ascii(SubSeq(e, 1, 22)))

\* The encoder has run on 16 bytes the last of which is 255.
C9_Witness ==
    /\ pc = "l21"
    /\ Len(uuid_bytes) = 16
    /\ uuid_bytes[16] = 255
    /\ Len(cluster_id) = 22

\* C10: the 22nd character of every computed identifier is one of A, Q, g, w
\* and its 9th character is one of Q, R, S, T.
C10_FixedCharacters ==
    Encoded =>
        /\ cluster_id[22] \in {"A", "Q", "g", "w"}
        /\ cluster_id[9] \in {"Q", "R", "S", "T"}

\* A computed identifier whose 9th character is T and whose 22nd is g.
C10_Witness ==
    /\ Encoded
    /\ cluster_id[9] = "T"
    /\ cluster_id[22] = "g"

====
